---- MODULE Spec2Model ----
(***************************************************************************)
(* The transaction risk evaluation engine of app/services/rule_engine.py   *)
(* together with the record store it reads (transactions and per-user rule *)
(* configuration rows) and the HTTP routes that call it: POST /evaluate and *)
(* the two Capital One routes that store a row and evaluate it.            *)
(*                                                                         *)
(* Time is counted in hours: one tick of `now` is one hour, a calendar     *)
(* month begins at an hour of MonthStarts.  Amounts are whole currency     *)
(* units.  Strings                                                         *)
(* are sequences of one-character strings so that strip() and upper() are  *)
(* computed, not assumed.  An optional value (Python None) is a set with   *)
(* at most one element: None == {} and Some(x) == {x}.                     *)
(***************************************************************************)
EXTENDS Integers, Sequences, FiniteSets, TLC

VARIABLES
    txs,      \* table transactions: set of rows
    configs,  \* table user_rule_configs: set of rows
    now,      \* the clock read by datetime.now() and by the server default of created_at
    rules,    \* RuleEngine._rules of the engine instance shared by all requests
    ev        \* the evaluate requests in flight: request -> frame of evaluate_transaction

vars == <<txs, configs, now, rules, ev>>

----------------------------------------------------------------------------
(* Bounds of the model *)

MaxTx == 2          \* rows the transactions table may hold under Spec
MaxTime == 2        \* last hour the clock reaches
MaxVelTx == 7       \* rows the transactions table may hold under SpecVelocity
MaxRules == 3       \* rules registered under SpecEngine
MaxOther == 2       \* rows of the other user under SpecTenants

(* Program constants *)

Hour == 1                 \* timedelta(hours=1)
ScoreCap == 100           \* min(100, risk_score)
AllowBelow == 40          \* risk_score < 40
ReviewMax == 70           \* risk_score <= 70
MaxWeight == 100          \* 0 <= weight <= 100
MaxAmountWeight == 30
VelocityWeight == 25
MonthlyLimitWeight == 35
CountryBlockWeight == 40

Users == {1, 2}
Amounts == {1, 2}
Requests == {"r1"}

\* The calendar: the hours at which a month begins (months differ in length)
MonthStarts == {0, 2, 5, 7}

----------------------------------------------------------------------------
(* Optional values and strings *)

None == {}
Some(x) == {x}
Val(o) == CHOOSE x \in o : TRUE

Min(a, b) == IF a <= b THEN a ELSE b

\* str: a sequence of one-character strings
Str0 == << >>
StrIR == <<"I", "R">>
StrIr == <<"i", "r">>
StrPadIR == <<" ", "I", "R", " ">>
StrUS == <<"U", "S">>
StrKP == <<"K", "P">>
StrSp == <<" ">>
StrPadIr == <<" ", "i", "R", " ">>

LowerChars == <<"i", "r", "u", "s", "k", "p">>
UpperChars == <<"I", "R", "U", "S", "K", "P">>

\* str.upper(), one character
UpperChar(c) ==
    IF \E k \in 1..Len(LowerChars) : LowerChars[k] = c
    THEN UpperChars[CHOOSE k \in 1..Len(LowerChars) : LowerChars[k] = c]
    ELSE c

\* str.upper()
upper(s) == [k \in 1..Len(s) |-> UpperChar(s[k])]

IsSpace(c) == c = " "

\* str.strip(): drop leading and trailing whitespace
strip(s) ==
    LET keep == {k \in 1..Len(s) : ~IsSpace(s[k])} IN
    IF keep = {} THEN Str0
    ELSE LET lo == CHOOSE k \in keep : \A j \in keep : k <= j
             hi == CHOOSE k \in keep : \A j \in keep : k >= j
         IN  SubSeq(s, lo, hi)

----------------------------------------------------------------------------
(* Rules, verdicts and the configuration view *)

RuleClasses == {"MaxAmountRule", "VelocityRule", "MonthlyLimitRule", "CountryBlockRule"}

\* Mutant: the weight accepted unchecked
BaseRule_unchecked(cls, weight) ==
    Some([cls |-> cls, name |-> cls, weight |-> weight])

\* BaseRule.__init__: the rule built, or None when ValueError is raised
BaseRule(cls, weight) ==
    IF ~(0 <= weight /\ weight <= MaxWeight) THEN None
    ELSE Some([cls |-> cls, name |-> cls, weight |-> weight])

\* A message: the text of the f-string and the values formatted into it
Msg(text, nums, country) == [text |-> text, nums |-> nums, country |-> country]

\* dataclass RuleResult; rule_name defaults to ""
RuleResult(triggered, message, risk_contribution) ==
    [triggered |-> triggered, message |-> message,
     risk_contribution |-> risk_contribution, rule_name |-> ""]

\* dataclass UserRulesView
UserRulesView(max_amount, per_hour, monthly, blocked) ==
    [max_transaction_amount |-> max_amount,
     max_transactions_per_hour |-> per_hour,
     monthly_spending_limit |-> monthly,
     blocked_countries |-> blocked]

\* Mutant: "no limit" represented by 0 instead of by None
default_user_rules_zero == UserRulesView(Some(0), None, None, << >>)

default_user_rules == UserRulesView(None, None, None, << >>)

\* Python's `x or []` on an optional list
OrEmptyList(o) == IF o = None THEN << >> ELSE Val(o)

\* result.scalar_one_or_none(): raises MultipleResultsFound on more than one row
scalar_one_or_none(rows) ==
    [raised |-> Cardinality(rows) > 1,
     row |-> IF Cardinality(rows) = 1 THEN Some(CHOOSE x \in rows : TRUE) ELSE None]

\* Mutant: the limits read with `value or None`, a stored 0 taken for unset
get_user_rules_falsy(rows) ==
    LET row == scalar_one_or_none(rows).row
        OrNoneIfZero(o) == IF o = Some(0) THEN None ELSE o
    IN
    IF row = None THEN default_user_rules
    ELSE UserRulesView(OrNoneIfZero(Val(row).max_transaction_amount),
                       OrNoneIfZero(Val(row).max_transactions_per_hour),
                       OrNoneIfZero(Val(row).monthly_spending_limit),
                       OrEmptyList(Val(row).blocked_countries))

\* Mutant: the stored blocked list not copied into the view
get_user_rules_noblocked(rows) ==
    LET row == scalar_one_or_none(rows).row IN
    IF row = None THEN default_user_rules
    ELSE UserRulesView(Val(row).max_transaction_amount,
                       Val(row).max_transactions_per_hour,
                       Val(row).monthly_spending_limit,
                       << >>)

\* _get_user_rules, given the rows its select returned
get_user_rules(rows) ==
    LET row == scalar_one_or_none(rows).row IN
    IF row = None THEN default_user_rules
    ELSE UserRulesView(Val(row).max_transaction_amount,
                       Val(row).max_transactions_per_hour,
                       Val(row).monthly_spending_limit,
                       OrEmptyList(Val(row).blocked_countries))

\* Mutant: the ALLOW threshold taken inclusively
decision_from_score_le(risk_score) ==
    IF risk_score <= AllowBelow THEN "ALLOW"
    ELSE IF risk_score <= ReviewMax THEN "REVIEW"
    ELSE "BLOCK"

decision_from_score(risk_score) ==
    IF risk_score < AllowBelow THEN "ALLOW"
    ELSE IF risk_score <= ReviewMax THEN "REVIEW"
    ELSE "BLOCK"

\* Mutant: the amount compared with < instead of <=
MaxAmountRule_evaluate_ge(rule, transaction, user_rules) ==
    LET limit == user_rules.max_transaction_amount IN
    IF limit = None
    THEN RuleResult(FALSE, Msg("No amount limit set", << >>, Str0), 0)
    ELSE IF transaction.amount < Val(limit)
    THEN RuleResult(FALSE, Msg("Amount within limit",
                               <<transaction.amount, Val(limit)>>, Str0), 0)
    ELSE RuleResult(TRUE, Msg("Amount exceeds limit",
                              <<transaction.amount, Val(limit)>>, Str0), rule.weight)

MaxAmountRule_evaluate(rule, transaction, user_rules) ==
    LET limit == user_rules.max_transaction_amount IN
    IF limit = None
    THEN RuleResult(FALSE, Msg("No amount limit set", << >>, Str0), 0)
    ELSE IF transaction.amount <= Val(limit)
    THEN RuleResult(FALSE, Msg("Amount within limit",
                               <<transaction.amount, Val(limit)>>, Str0), 0)
    ELSE RuleResult(TRUE, Msg("Amount exceeds limit",
                              <<transaction.amount, Val(limit)>>, Str0), rule.weight)

\* Mutant: the rows created up to the window's start are counted
count_since_before(store, user_id, since) ==
    Cardinality({t \in store : t.user_id = user_id /\ t.created_at <= since})

\* Mutant: the count taken over the rows of every user
count_since_all(store, user_id, since) ==
    Cardinality({t \in store : t.created_at >= since})

\* select count(id) where user_id == :user_id and created_at >= :since
count_since(store, user_id, since) ==
    Cardinality({t \in store : t.user_id = user_id /\ t.created_at >= since})

RECURSIVE SumAmounts(_)
SumAmounts(rows) ==
    IF rows = {} THEN 0
    ELSE LET t == CHOOSE x \in rows : TRUE IN t.amount + SumAmounts(rows \ {t})

\* select coalesce(sum(amount), 0) where user_id == :user_id and created_at >= :since
sum_since(store, user_id, since) ==
    SumAmounts({t \in store : t.user_id = user_id /\ t.created_at >= since})

\* datetime.now(timezone.utc) - timedelta(hours=1)
velocity_since(t) == t - Hour

\* Mutant: the window opened at the start of the following month
start_of_month_next(created_at) ==
    CHOOSE m \in MonthStarts :
        /\ m > created_at
        /\ \A k \in MonthStarts : k > created_at => m <= k

\* created_at.replace(day=1, hour=0, minute=0, second=0, microsecond=0)
start_of_month(created_at) ==
    CHOOSE m \in MonthStarts :
        /\ m <= created_at
        /\ \A k \in MonthStarts : k <= created_at => k <= m

\* Mutant: the docstring's comparison, triggered when count >= limit
VelocityRule_evaluate_ge(rule, transaction, user_rules, store, since) ==
    LET limit == user_rules.max_transactions_per_hour
        count == count_since(store, transaction.user_id, since)
    IN
    IF limit = None
    THEN RuleResult(FALSE, Msg("No velocity limit set", << >>, Str0), 0)
    ELSE IF count < Val(limit)
    THEN RuleResult(FALSE, Msg("Transactions in last hour within limit",
                               <<count, Val(limit)>>, Str0), 0)
    ELSE RuleResult(TRUE, Msg("Transactions in last hour exceed limit",
                              <<count, Val(limit)>>, Str0), rule.weight)

\* VelocityRule.evaluate; `since` was computed before the count query was awaited
\* Mutant: the comparison reversed, triggered while the count is under the
\* limit
VelocityRule_evaluate_under(rule, transaction, user_rules, store, since) ==
    LET limit == user_rules.max_transactions_per_hour
        count == count_since(store, transaction.user_id, since)
    IN
    IF limit = None
    THEN RuleResult(FALSE, Msg("No velocity limit set", << >>, Str0), 0)
    ELSE IF count >= Val(limit)
    THEN RuleResult(FALSE, Msg("Transactions in last hour within limit",
                               <<count, Val(limit)>>, Str0), 0)
    ELSE RuleResult(TRUE, Msg("Transactions in last hour exceed limit",
                              <<count, Val(limit)>>, Str0), rule.weight)

VelocityRule_evaluate(rule, transaction, user_rules, store, since) ==
    LET limit == user_rules.max_transactions_per_hour
        count == count_since(store, transaction.user_id, since)
    IN
    IF limit = None
    THEN RuleResult(FALSE, Msg("No velocity limit set", << >>, Str0), 0)
    ELSE IF count <= Val(limit)
    THEN RuleResult(FALSE, Msg("Transactions in last hour within limit",
                               <<count, Val(limit)>>, Str0), 0)
    ELSE RuleResult(TRUE, Msg("Transactions in last hour exceed limit",
                              <<count, Val(limit)>>, Str0), rule.weight)

\* Mutant: the excess reported as the contribution instead of the weight
MonthlyLimitRule_evaluate_total(rule, transaction, user_rules, store, since) ==
    LET limit == user_rules.monthly_spending_limit
        total == sum_since(store, transaction.user_id, since)
    IN
    IF limit = None
    THEN RuleResult(FALSE, Msg("No monthly limit set", << >>, Str0), 0)
    ELSE IF total <= Val(limit)
    THEN RuleResult(FALSE, Msg("Monthly total within limit",
                               <<total, Val(limit)>>, Str0), 0)
    ELSE RuleResult(TRUE, Msg("Monthly total exceeds limit",
                              <<total, Val(limit)>>, Str0), total)

MonthlyLimitRule_evaluate(rule, transaction, user_rules, store, since) ==
    LET limit == user_rules.monthly_spending_limit
        total == sum_since(store, transaction.user_id, since)
    IN
    IF limit = None
    THEN RuleResult(FALSE, Msg("No monthly limit set", << >>, Str0), 0)
    ELSE IF total <= Val(limit)
    THEN RuleResult(FALSE, Msg("Monthly total within limit",
                               <<total, Val(limit)>>, Str0), 0)
    ELSE RuleResult(TRUE, Msg("Monthly total exceeds limit",
                              <<total, Val(limit)>>, Str0), rule.weight)

\* Mutant: the blocked entries trimmed but not upper-cased
normalized_blocked_noupper(blocked) ==
    LET kept == SelectSeq(blocked, LAMBDA c : c # Str0) IN
    [k \in 1..Len(kept) |-> strip(kept[k])]

\* [c.strip().upper() for c in blocked if c]
normalized_blocked(blocked) ==
    LET kept == SelectSeq(blocked, LAMBDA c : c # Str0) IN
    [k \in 1..Len(kept) |-> upper(strip(kept[k]))]

InList(x, list) == \E k \in 1..Len(list) : list[k] = x

CountryBlockRule_evaluate(rule, transaction, user_rules) ==
    LET blocked == user_rules.blocked_countries
        country == upper(strip(IF transaction.country = None THEN Str0
                               ELSE Val(transaction.country)))
    IN
    IF blocked = << >>
    THEN RuleResult(FALSE, Msg("No countries blocked", << >>, Str0), 0)
    ELSE IF country = Str0
    THEN RuleResult(FALSE, Msg("Transaction has no country", << >>, Str0), 0)
    ELSE IF ~InList(country, normalized_blocked(blocked))
    THEN RuleResult(FALSE, Msg("Country not in blocked list", << >>, country), 0)
    ELSE RuleResult(TRUE, Msg("Country is blocked", << >>, country), rule.weight)

\* Mutant: the aggregate query issued before the limit is looked at
rule_awaits_always(rule, user_rules) ==
    rule.cls \in {"VelocityRule", "MonthlyLimitRule"}

\* Does rule.evaluate suspend on a store query for this view?
rule_awaits(rule, user_rules) ==
    \/ rule.cls = "VelocityRule" /\ user_rules.max_transactions_per_hour # None
    \/ rule.cls = "MonthlyLimitRule" /\ user_rules.monthly_spending_limit # None

\* The lower end of the window, fixed before the query is awaited
rule_since(rule, transaction, t) ==
    IF rule.cls = "VelocityRule" THEN velocity_since(t)
    ELSE start_of_month(transaction.created_at)

\* The statement a suspending rule executes
rule_statement(rule) ==
    IF rule.cls = "VelocityRule" THEN "count_since" ELSE "sum_since"

\* rule.evaluate(transaction, user_rules, db), dispatched on the rule's class
rule_evaluate(rule, transaction, user_rules, store, since) ==
    CASE rule.cls = "MaxAmountRule" ->
            MaxAmountRule_evaluate(rule, transaction, user_rules)
      [] rule.cls = "VelocityRule" ->
            VelocityRule_evaluate(rule, transaction, user_rules, store, since)
      [] rule.cls = "MonthlyLimitRule" ->
            MonthlyLimitRule_evaluate(rule, transaction, user_rules, store, since)
      [] rule.cls = "CountryBlockRule" ->
            CountryBlockRule_evaluate(rule, transaction, user_rules)

\* Mutant: the verdict left unstamped
Stamp_none(rr, rule) == rr

\* rr.rule_name = rule.name
Stamp(rr, rule) == [rr EXCEPT !.rule_name = rule.name]

RECURSIVE SumContributions(_)
SumContributions(rule_results) ==
    IF rule_results = << >> THEN 0
    ELSE Head(rule_results).risk_contribution + SumContributions(Tail(rule_results))

\* Mutant: the sum reported without the cap
EvaluationResult_noclamp(transaction_id, rule_results) ==
    LET risk_score == SumContributions(rule_results) IN
    [transaction_id |-> transaction_id,
     risk_score |-> risk_score,
     decision |-> decision_from_score(risk_score),
     rule_results |-> rule_results]

\* Mutant: the first verdict alone decides the score
EvaluationResult_first(transaction_id, rule_results) ==
    LET risk_score == IF rule_results = << >> THEN 0
                      ELSE Min(ScoreCap, Head(rule_results).risk_contribution)
    IN
    [transaction_id |-> transaction_id,
     risk_score |-> risk_score,
     decision |-> decision_from_score(risk_score),
     rule_results |-> rule_results]

\* dataclass EvaluationResult, as built at the end of evaluate_transaction
EvaluationResult(transaction_id, rule_results) ==
    LET risk_score == Min(ScoreCap, SumContributions(rule_results)) IN
    [transaction_id |-> transaction_id,
     risk_score |-> risk_score,
     decision |-> decision_from_score(risk_score),
     rule_results |-> rule_results]

\* Mutant: the weights of MaxAmountRule and CountryBlockRule exchanged
create_default_engine_swapped ==
    << Val(BaseRule("MaxAmountRule", CountryBlockWeight)),
       Val(BaseRule("VelocityRule", VelocityWeight)),
       Val(BaseRule("MonthlyLimitRule", MonthlyLimitWeight)),
       Val(BaseRule("CountryBlockRule", MaxAmountWeight)) >>

\* create_default_engine
create_default_engine ==
    << Val(BaseRule("MaxAmountRule", MaxAmountWeight)),
       Val(BaseRule("VelocityRule", VelocityWeight)),
       Val(BaseRule("MonthlyLimitRule", MonthlyLimitWeight)),
       Val(BaseRule("CountryBlockRule", CountryBlockWeight)) >>

----------------------------------------------------------------------------
(* The record store *)

\* A row of table transactions (app/models/transaction.py)
Transaction(id, user_id, amount, country, created_at) ==
    [id |-> id, user_id |-> user_id, amount |-> amount,
     country |-> country, created_at |-> created_at]

\* A row of table user_rule_configs (app/models/user_rule_config.py)
UserRuleConfig(id, user_id, max_amount, per_hour, monthly, blocked) ==
    [id |-> id, user_id |-> user_id,
     max_transaction_amount |-> max_amount,
     max_transactions_per_hour |-> per_hour,
     monthly_spending_limit |-> monthly,
     blocked_countries |-> blocked]

\* The body of POST /{user_id}/rules (schema UserRuleConfigCreate)
Payload(max_amount, per_hour, monthly, blocked) ==
    [max_transaction_amount |-> max_amount,
     max_transactions_per_hour |-> per_hour,
     monthly_spending_limit |-> monthly,
     blocked_countries |-> blocked]

\* INTEGER PRIMARY KEY of SQLite: one more than the largest id in the table
NextId(rows) ==
    IF rows = {} THEN 1
    ELSE 1 + (CHOOSE n \in {x.id : x \in rows} : \A x \in rows : x.id <= n)

\* POST /users/{user_id}/transactions; created_at is the server default now()
create_transaction(user_id, amount, country) ==
    /\ txs' = txs \cup {Transaction(NextId(txs), user_id, amount, country, now)}
    /\ UNCHANGED <<configs, now, rules, ev>>

\* DELETE /users/{user_id}/transactions/{transaction_id}
delete_transaction(user_id, transaction_id) ==
    /\ \E t \in txs : t.id = transaction_id /\ t.user_id = user_id
    /\ txs' = {t \in txs : t.id # transaction_id}
    /\ UNCHANGED <<configs, now, rules, ev>>

\* POST /{user_id}/rules: create or replace the user's configuration row
create_or_update_user_rules(user_id, payload) ==
    LET existing == scalar_one_or_none({c \in configs : c.user_id = user_id}).row
        blocked == Some(OrEmptyList(payload.blocked_countries))
    IN
    /\ configs' =
          IF existing # None
          THEN (configs \ existing) \cup
               {UserRuleConfig(Val(existing).id, user_id,
                               payload.max_transaction_amount,
                               payload.max_transactions_per_hour,
                               payload.monthly_spending_limit, blocked)}
          ELSE configs \cup
               {UserRuleConfig(NextId(configs), user_id,
                               payload.max_transaction_amount,
                               payload.max_transactions_per_hour,
                               payload.monthly_spending_limit, blocked)}
    /\ UNCHANGED <<txs, now, rules, ev>>

\* The passing of one hour
Tick ==
    /\ now < MaxTime
    /\ now' = now + 1
    /\ UNCHANGED <<txs, configs, rules, ev>>

----------------------------------------------------------------------------
(* The engine *)

\* RuleEngine.register_rule(cls(weight=weight)); nothing is registered when the
\* constructor raises
register_rule(cls, weight) ==
    /\ rules' = IF BaseRule(cls, weight) = None THEN rules
                ELSE Append(rules, Val(BaseRule(cls, weight)))
    /\ UNCHANGED <<txs, configs, now, ev>>

\* The frame of one request: the locals of evaluate_transaction, the
\* statements it has executed, the number of rules the engine held when
\* evaluate_transaction was entered, what the route answered and, for the
\* configuration routes, the body sent, the row found and the write the
\* session has flushed and not yet committed
IdleFrame ==
    [pc |-> "idle", transaction_id |-> 0, transaction |-> None,
     user_rules |-> None, i |-> 0, since |-> 0, rule_results |-> << >>,
     result |-> None, raised |-> "", executed |-> << >>, status |-> 0,
     route |-> "evaluate", user_id |-> 0, items |-> << >>, out |-> << >>,
     began_with |-> 0, payload |-> None, existing |-> None, pending |-> None]

\* Mutant: the route does not catch ValueError
Raise_uncaught(f, exc) ==
    [f EXCEPT !.pc = "done", !.raised = exc, !.result = None, !.status = 500]

\* Mutant: the exception swallowed and the verdicts so far aggregated
Raise_swallow(f, exc) ==
    [f EXCEPT !.pc = "done", !.raised = exc,
              !.result = Some(EvaluationResult(f.transaction_id, f.rule_results)),
              !.status = 200]

\* The route's answer to an exception of the engine: ValueError becomes 404,
\* anything else propagates (500)
Raise(f, exc) ==
    [f EXCEPT !.pc = "done", !.raised = exc, !.result = None,
              !.status = IF exc = "ValueError" THEN 404 ELSE 500]

\* _to_evaluation_schema(local_tx.id, result.risk_score if result else 0,
\* result.decision if result else "ALLOW", result.rule_results if result else [])
to_evaluation_schema(transaction_id, result) ==
    [transaction_id |-> transaction_id,
     risk_score |-> IF result # None THEN Val(result).risk_score ELSE 0,
     decision |-> IF result # None THEN Val(result).decision ELSE "ALLOW",
     rule_results |-> IF result # None THEN Val(result).rule_results ELSE << >>]

\* The evaluation the account-transactions route reports for an item whose
\* amount is not positive: no local row, no engine call
placeholder_evaluation ==
    [transaction_id |-> 0, risk_score |-> 0, decision |-> "ALLOW",
     rule_results |-> << >>]

\* `for tx_dict in items` of the account-transactions route up to its next
\* await: items without a positive amount are answered on the spot, an item
\* with one is added to the session and flushed; past the last item the route
\* returns.  The evaluate-purchase route is the case of no further item.
RECURSIVE next_item(_)
next_item(f) ==
    IF f.items = << >> THEN [f EXCEPT !.pc = "done", !.status = 200]
    ELSE IF Head(f.items).amount <= 0
    THEN next_item([f EXCEPT !.out = Append(@, placeholder_evaluation),
                             !.items = Tail(@)])
    ELSE [f EXCEPT !.pc = "flush"]

\* The Capital One routes after `await _engine.evaluate_transaction(...)`:
\* result is None when the call raised (`except Exception: result = None`)
engine_returned(f, result) ==
    next_item([f EXCEPT !.result = result,
                        !.out = Append(@, to_evaluation_schema(f.transaction_id, result))])

\* evaluate_transaction returns its result to the route that called it
Return(f, result) ==
    IF f.route = "evaluate"
    THEN [f EXCEPT !.pc = "done", !.result = Some(result), !.status = 200]
    ELSE engine_returned(f, Some(result))

\* evaluate_transaction raises into the route that called it
Catch(f, exc) ==
    IF f.route = "evaluate" THEN Raise(f, exc)
    ELSE engine_returned([f EXCEPT !.raised = exc], None)

\* Mutant: the loop stops asking once a rule has triggered, the rules after it
\* are given a not-triggered verdict
RECURSIVE run_rules_shortcircuit(_, _, _)
run_rules_shortcircuit(f, rls, t) ==
    IF f.i > Len(rls)
    THEN Return(f, EvaluationResult(f.transaction_id, f.rule_results))
    ELSE LET rule == rls[f.i]
             rr == rule_evaluate(rule, Val(f.transaction), Val(f.user_rules), {}, 0)
             skipped == RuleResult(FALSE, Msg("Skipped", << >>, Str0), 0)
         IN
         IF \E k \in 1..Len(f.rule_results) : f.rule_results[k].triggered
         THEN run_rules_shortcircuit(
                  [f EXCEPT !.rule_results = Append(@, Stamp(skipped, rule)),
                            !.i = @ + 1], rls, t)
         ELSE IF rule_awaits(rule, Val(f.user_rules))
         THEN [f EXCEPT !.pc = "query",
                        !.since = rule_since(rule, Val(f.transaction), t)]
         ELSE run_rules_shortcircuit(
                  [f EXCEPT !.rule_results = Append(@, Stamp(rr, rule)),
                            !.i = @ + 1], rls, t)

\* Mutant: the loop runs over the rules the engine held when the evaluation
\* was entered, `for rule in` a copy of the list
RECURSIVE run_rules_copy(_, _, _)
run_rules_copy(f, rls, t) ==
    IF f.i > Min(f.began_with, Len(rls))
    THEN Return(f, EvaluationResult(f.transaction_id, f.rule_results))
    ELSE LET rule == rls[f.i]
             rr == rule_evaluate(rule, Val(f.transaction), Val(f.user_rules), {}, 0)
         IN
         IF rule_awaits(rule, Val(f.user_rules))
         THEN [f EXCEPT !.pc = "query",
                        !.since = rule_since(rule, Val(f.transaction), t)]
         ELSE run_rules_copy([f EXCEPT !.rule_results = Append(@, Stamp(rr, rule)),
                                       !.i = @ + 1], rls, t)

\* The loop `for rule in self._rules` from rule f.i on, up to the next await or,
\* past the last rule, the aggregation and the return
RECURSIVE run_rules(_, _, _)
run_rules(f, rls, t) ==
    IF f.i > Len(rls)
    THEN Return(f, EvaluationResult(f.transaction_id, f.rule_results))
    ELSE LET rule == rls[f.i]
             rr == rule_evaluate(rule, Val(f.transaction), Val(f.user_rules), {}, 0)
         IN
         IF rule_awaits(rule, Val(f.user_rules))
         THEN [f EXCEPT !.pc = "query",
                        !.since = rule_since(rule, Val(f.transaction), t)]
         ELSE run_rules([f EXCEPT !.rule_results = Append(@, Stamp(rr, rule)),
                                  !.i = @ + 1], rls, t)

\* RuleEngine.evaluate_transaction run from its first statement to its last
\* with nothing else running: the store, the configurations, the rule list and
\* the clock t do not change under it
evaluate_transaction(transaction_id, store, cfgs, rls, t) ==
    LET got == scalar_one_or_none({x \in store : x.id = transaction_id})
        transaction == Val(got.row)
        rows == {c \in cfgs : c.user_id = transaction.user_id}
        user_rules == get_user_rules(rows)
        rule_results ==
            [k \in 1..Len(rls) |->
                Stamp(rule_evaluate(rls[k], transaction, user_rules, store,
                                    rule_since(rls[k], transaction, t)), rls[k])]
    IN
    IF got.row = None THEN [raised |-> "ValueError", result |-> None]
    ELSE IF scalar_one_or_none(rows).raised
    THEN [raised |-> "MultipleResultsFound", result |-> None]
    ELSE [raised |-> "",
          result |-> Some(EvaluationResult(transaction_id, rule_results))]

\* Mutant: the verdict list kept on the engine between calls, so that an
\* evaluation starts from the verdicts of one that has ended
Request_kept(r, transaction_id) ==
    LET ended == {q \in DOMAIN ev : ev[q].pc = "done"}
        kept == IF ended = {} THEN << >>
                ELSE ev[CHOOSE q \in ended : TRUE].rule_results
    IN
    /\ ev[r].pc = "idle"
    /\ ev' = [ev EXCEPT ![r] = [IdleFrame EXCEPT !.pc = "load",
                                                 !.transaction_id = transaction_id,
                                                 !.began_with = Len(rules),
                                                 !.rule_results = kept]]
    /\ UNCHANGED <<txs, configs, now, rules>>

\* POST /evaluate arrives: evaluate_transaction issues its select by id
Request(r, transaction_id) ==
    /\ ev[r].pc = "idle"
    /\ ev' = [ev EXCEPT ![r] = [IdleFrame EXCEPT !.pc = "load",
                                                 !.transaction_id = transaction_id,
                                                 !.began_with = Len(rules)]]
    /\ UNCHANGED <<txs, configs, now, rules>>

\* The select by id returns: not found raises, otherwise the configuration
\* select is issued
LoadTransaction(r) ==
    LET f == ev[r]
        got == scalar_one_or_none({t \in txs : t.id = f.transaction_id})
        g == [f EXCEPT !.executed = Append(@, "select_transaction")]
    IN
    /\ f.pc = "load"
    /\ ev' = [ev EXCEPT ![r] =
                IF got.row = None THEN Catch(g, "ValueError")
                ELSE [g EXCEPT !.pc = "config", !.transaction = got.row]]
    /\ UNCHANGED <<txs, configs, now, rules>>

\* Mutant: get-or-create, a default configuration row is stored for an owner
\* who has none
LoadConfig_materialize(r) ==
    LET f == ev[r]
        rows == {c \in configs : c.user_id = Val(f.transaction).user_id}
        g == [f EXCEPT !.executed = Append(@, "select_config")]
    IN
    /\ f.pc = "config"
    /\ ev' = [ev EXCEPT ![r] =
                IF scalar_one_or_none(rows).raised
                THEN Catch(g, "MultipleResultsFound")
                ELSE run_rules([g EXCEPT !.user_rules = Some(get_user_rules(rows)),
                                         !.i = 1], rules, now)]
    /\ configs' = IF rows # {} THEN configs
                  ELSE configs \cup {UserRuleConfig(NextId(configs),
                                                    Val(f.transaction).user_id,
                                                    None, None, None, Some(<< >>))}
    /\ UNCHANGED <<txs, now, rules>>

\* The configuration select returns: the view is built and the rule loop runs
\* to its first await
LoadConfig(r) ==
    LET f == ev[r]
        rows == {c \in configs : c.user_id = Val(f.transaction).user_id}
        g == [f EXCEPT !.executed = Append(@, "select_config")]
    IN
    /\ f.pc = "config"
    /\ ev' = [ev EXCEPT ![r] =
                IF scalar_one_or_none(rows).raised
                THEN Catch(g, "MultipleResultsFound")
                ELSE run_rules([g EXCEPT !.user_rules = Some(get_user_rules(rows)),
                                         !.i = 1], rules, now)]
    /\ UNCHANGED <<txs, configs, now, rules>>

\* Mutant: the verdict kept on the engine instead of in the call's own list,
\* so that every evaluation suspended on a query receives it
QueryReturn_shared(r) ==
    LET f == ev[r]
        rule == rules[f.i]
        rr == rule_evaluate(rule, Val(f.transaction), Val(f.user_rules), txs, f.since)
    IN
    /\ f.pc = "query"
    /\ ev' = [q \in DOMAIN ev |->
                IF ev[q].pc = "query"
                THEN run_rules([ev[q] EXCEPT !.rule_results = Append(@, Stamp(rr, rule)),
                                             !.i = @ + 1, !.since = 0,
                                             !.executed = Append(@, rule_statement(rule))],
                               rules, now)
                ELSE ev[q]]
    /\ UNCHANGED <<txs, configs, now, rules>>

\* Mutant: the count and the sum answered without reading the store
QueryReturn_unread(r) ==
    LET f == ev[r]
        rule == rules[f.i]
        rr == rule_evaluate(rule, Val(f.transaction), Val(f.user_rules), {}, f.since)
    IN
    /\ f.pc = "query"
    /\ ev' = [ev EXCEPT ![r] =
                run_rules([f EXCEPT !.rule_results = Append(@, Stamp(rr, rule)),
                                    !.i = @ + 1, !.since = 0,
                                    !.executed = Append(@, rule_statement(rule))],
                          rules, now)]
    /\ UNCHANGED <<txs, configs, now, rules>>

\* The count or sum of the suspended rule returns: its verdict is appended and
\* the loop runs on
QueryReturn(r) ==
    LET f == ev[r]
        rule == rules[f.i]
        rr == rule_evaluate(rule, Val(f.transaction), Val(f.user_rules), txs, f.since)
    IN
    /\ f.pc = "query"
    /\ ev' = [ev EXCEPT ![r] =
                run_rules([f EXCEPT !.rule_results = Append(@, Stamp(rr, rule)),
                                    !.i = @ + 1, !.since = 0,
                                    !.executed = Append(@, rule_statement(rule))],
                          rules, now)]
    /\ UNCHANGED <<txs, configs, now, rules>>

\* The awaited statement fails (store unavailable, timeout): the exception
\* leaves evaluate_transaction
DependencyFailure(r) ==
    /\ ev[r].pc \in {"load", "config", "query"}
    /\ ev' = [ev EXCEPT ![r] = Catch(@, "DependencyFailure")]
    /\ UNCHANGED <<txs, configs, now, rules>>

\* POST /accounts/{account_id}/evaluate-purchase arrives: the user exists and
\* the purchase is sent to the Capital One API
evaluate_purchase(r, user_id, amount, country) ==
    /\ ev[r].pc = "idle"
    /\ ev' = [ev EXCEPT ![r] =
                [IdleFrame EXCEPT !.pc = "client", !.route = "evaluate_purchase",
                                  !.user_id = user_id,
                                  !.items = <<[amount |-> amount,
                                               country |-> Some(country)]>>]]
    /\ UNCHANGED <<txs, configs, now, rules>>

\* GET /accounts/{account_id}/transactions arrives: the user exists and the
\* account's transactions are asked of the Capital One API
get_account_transactions_with_evaluation(r, user_id) ==
    /\ ev[r].pc = "idle"
    /\ ev' = [ev EXCEPT ![r] =
                [IdleFrame EXCEPT !.pc = "client", !.route = "account_transactions",
                                  !.user_id = user_id]]
    /\ UNCHANGED <<txs, configs, now, rules>>

\* tx_dict.get("country") or None
OrNone(country) == IF country = Some(Str0) THEN None ELSE country

\* The Capital One API answers: raw is the list of transactions it returned to
\* the account-transactions route (the purchase route keeps its own item)
ClientReturn(r, raw) ==
    LET f == ev[r]
        items == [k \in 1..Len(raw) |->
                    [amount |-> raw[k].amount, country |-> OrNone(raw[k].country)]]
    IN
    /\ f.pc = "client"
    /\ ev' = [ev EXCEPT ![r] =
                IF f.route = "account_transactions"
                THEN next_item([f EXCEPT !.items = items])
                ELSE next_item(f)]
    /\ UNCHANGED <<txs, configs, now, rules>>

\* The Capital One API fails: HTTPException 502, nothing stored or evaluated
ClientFailure(r) ==
    /\ ev[r].pc = "client"
    /\ ev' = [ev EXCEPT ![r] = [@ EXCEPT !.pc = "done", !.status = 502]]
    /\ UNCHANGED <<txs, configs, now, rules>>

\* db.add(local_tx); await db.flush(); await db.refresh(local_tx): the row is
\* stored with the server default created_at and the engine is called with
\* its id
Flush(r) ==
    LET f == ev[r]
        item == Head(f.items)
        local_tx == Transaction(NextId(txs), f.user_id, item.amount, item.country, now)
    IN
    /\ f.pc = "flush"
    /\ txs' = txs \cup {local_tx}
    /\ ev' = [ev EXCEPT ![r] =
                [f EXCEPT !.pc = "load", !.items = Tail(@),
                          !.transaction_id = local_tx.id,
                          !.transaction = None, !.user_rules = None, !.i = 0,
                          !.rule_results = << >>, !.result = None,
                          !.raised = "", !.executed = << >>,
                          !.began_with = Len(rules)]]
    /\ UNCHANGED <<configs, now, rules>>

\* The columns of user_rule_configs a request body can set
ConfigColumns ==
    {"max_transaction_amount", "max_transactions_per_hour",
     "monthly_spending_limit", "blocked_countries"}

\* The body of PATCH /{user_id}/rules (schema UserRuleConfigUpdate): the
\* fields the client sent, and every field's value, None when not sent
PatchPayload(sent, max_amount, per_hour, monthly, blocked) ==
    [sent |-> sent,
     max_transaction_amount |-> max_amount,
     max_transactions_per_hour |-> per_hour,
     monthly_spending_limit |-> monthly,
     blocked_countries |-> blocked]

\* POST /{user_id}/rules arrives (the user exists): the select of the user's
\* configuration row is issued
create_or_update_user_rules_request(r, user_id, payload) ==
    /\ ev[r].pc = "idle"
    /\ ev' = [ev EXCEPT ![r] =
                [IdleFrame EXCEPT !.pc = "existing", !.route = "post_rules",
                                  !.user_id = user_id,
                                  !.payload = Some(PatchPayload(ConfigColumns,
                                      payload.max_transaction_amount,
                                      payload.max_transactions_per_hour,
                                      payload.monthly_spending_limit,
                                      payload.blocked_countries))]]
    /\ UNCHANGED <<txs, configs, now, rules>>

\* PATCH /{user_id}/rules arrives (the user exists)
update_user_rules(r, user_id, payload) ==
    /\ ev[r].pc = "idle"
    /\ ev' = [ev EXCEPT ![r] =
                [IdleFrame EXCEPT !.pc = "existing", !.route = "patch_rules",
                                  !.user_id = user_id, !.payload = Some(payload)]]
    /\ UNCHANGED <<txs, configs, now, rules>>

\* The select of the configuration row returns: existing is the committed
\* row of the user, or None
SelectExisting(r) ==
    LET f == ev[r]
        got == scalar_one_or_none({c \in configs : c.user_id = f.user_id})
    IN
    /\ f.pc = "existing"
    /\ ev' = [ev EXCEPT ![r] =
                IF got.raised
                THEN [f EXCEPT !.pc = "done", !.raised = "MultipleResultsFound",
                               !.status = 500]
                ELSE [f EXCEPT !.pc = "flush_config", !.existing = got.row]]
    /\ UNCHANGED <<txs, configs, now, rules>>

\* The values the route assigns: POST assigns the four columns, the blocked
\* list through `or []`; PATCH assigns the fields sent, blocked_countries only
\* when it is not null
Assigned(route, payload) ==
    LET keys == IF route = "post_rules" THEN ConfigColumns
                ELSE {k \in payload.sent :
                         ~(k = "blocked_countries" /\ payload[k] = None)}
    IN  [k \in keys |->
            IF k = "blocked_countries" /\ route = "post_rules"
            THEN Some(OrEmptyList(payload[k]))
            ELSE payload[k]]

\* The row with the assigned columns written over it
Written(row, assigned) ==
    [k \in DOMAIN row |-> IF k \in DOMAIN assigned THEN assigned[k] ELSE row[k]]

\* The columns of the UPDATE the flush emits: those assigned a value other
\* than the one loaded
Changed(loaded, assigned) == {k \in DOMAIN assigned : assigned[k] # loaded[k]}

\* A connection holds the database's write lock from its first INSERT or
\* UPDATE to its commit or rollback
WriteLocked(r) == \E q \in DOMAIN ev : q # r /\ ev[q].pending # None

\* Mutant: the table without its unique constraint on user_id
FlushConfig_nounique(r) ==
    LET f == ev[r]
        payload == Val(f.payload)
        config == UserRuleConfig(NextId(configs), f.user_id,
                                 payload.max_transaction_amount,
                                 payload.max_transactions_per_hour,
                                 payload.monthly_spending_limit,
                                 Some(OrEmptyList(payload.blocked_countries)))
        assigned == Assigned(f.route, payload)
        columns == Changed(Val(f.existing), assigned)
        stored == {c \in configs : c.id = Val(f.existing).id}
        updated == Written(CHOOSE c \in stored : TRUE,
                           [k \in columns |-> assigned[k]])
    IN
    /\ f.pc = "flush_config"
    /\ ~WriteLocked(r)
    /\ ev' = [ev EXCEPT ![r] =
                IF f.existing = None
                THEN [f EXCEPT !.pc = "commit", !.pending = Some(config)]
                ELSE IF columns = {}
                THEN [f EXCEPT !.pc = "commit"]
                ELSE IF stored = {}
                THEN [f EXCEPT !.pc = "done", !.raised = "StaleDataError",
                               !.status = 500]
                ELSE [f EXCEPT !.pc = "commit", !.pending = Some(updated)]]
    /\ UNCHANGED <<txs, configs, now, rules>>

\* await db.flush(): the INSERT of the new row, refused with IntegrityError
\* when a row of the user is stored (uq_user_rule_config_user_id), or the
\* UPDATE of the changed columns of the row found; the write waits for the
\* write lock and is held by the session until its commit
FlushConfig(r) ==
    LET f == ev[r]
        payload == Val(f.payload)
        config == UserRuleConfig(NextId(configs), f.user_id,
                                 payload.max_transaction_amount,
                                 payload.max_transactions_per_hour,
                                 payload.monthly_spending_limit,
                                 Some(OrEmptyList(payload.blocked_countries)))
        assigned == Assigned(f.route, payload)
        columns == Changed(Val(f.existing), assigned)
        stored == {c \in configs : c.id = Val(f.existing).id}
        updated == Written(CHOOSE c \in stored : TRUE,
                           [k \in columns |-> assigned[k]])
    IN
    /\ f.pc = "flush_config"
    /\ ~WriteLocked(r)
    /\ ev' = [ev EXCEPT ![r] =
                IF f.existing = None
                THEN IF \E c \in configs : c.user_id = f.user_id
                     THEN [f EXCEPT !.pc = "done", !.raised = "IntegrityError",
                                    !.status = 500]
                     ELSE [f EXCEPT !.pc = "commit", !.pending = Some(config)]
                ELSE IF columns = {}
                THEN [f EXCEPT !.pc = "commit"]
                ELSE IF stored = {}
                THEN [f EXCEPT !.pc = "done", !.raised = "StaleDataError",
                               !.status = 500]
                ELSE [f EXCEPT !.pc = "commit", !.pending = Some(updated)]]
    /\ UNCHANGED <<txs, configs, now, rules>>

\* The route returns and get_db commits the session: the flushed write
\* becomes the stored row
CommitConfig(r) ==
    LET f == ev[r] IN
    /\ f.pc = "commit"
    /\ configs' = IF f.pending = None THEN configs
                  ELSE {c \in configs : c.id # Val(f.pending).id} \cup f.pending
    /\ ev' = [ev EXCEPT ![r] = [f EXCEPT !.pc = "done", !.status = 200,
                                         !.pending = None]]
    /\ UNCHANGED <<txs, now, rules>>

\* An awaited statement of a configuration route fails: get_db rolls the
\* session back and nothing is stored
ConfigFailure(r) ==
    /\ ev[r].pc \in {"existing", "flush_config", "commit"}
    /\ ev' = [ev EXCEPT ![r] = [@ EXCEPT !.pc = "done",
                                         !.raised = "DependencyFailure",
                                         !.status = 500, !.pending = None]]
    /\ UNCHANGED <<txs, configs, now, rules>>

\* The response is sent and the request's frame is gone
Respond(r) ==
    /\ ev[r].pc = "done"
    /\ ev' = [ev EXCEPT ![r] = IdleFrame]
    /\ UNCHANGED <<txs, configs, now, rules>>

----------------------------------------------------------------------------
(* Specification Spec: the application with the default engine *)

TxCountries == {None, Some(StrPadIR)}

PayloadAll == Payload(Some(1), Some(1), Some(2), Some(<<StrIr>>))
ConfigPayloads == {PayloadAll}
ConfigUsers == {1}      \* user 2 never posts a configuration

Init ==
    /\ txs = {}
    /\ configs = {}
    /\ now = 0
    /\ rules = create_default_engine
    /\ ev = [r \in Requests |-> IdleFrame]

CreateTransaction ==
    \E u \in Users, a \in Amounts, c \in TxCountries :
        Cardinality(txs) < MaxTx /\ create_transaction(u, a, c)

PostRules ==
    \E u \in ConfigUsers, p \in ConfigPayloads : create_or_update_user_rules(u, p)

\* The ids a client asks about: every stored one and one that is not stored
RequestIds == {t.id : t \in txs} \cup {NextId(txs)}

Evaluate ==
    \E r \in Requests :
        \/ \E id \in RequestIds : Request(r, id)
        \/ LoadTransaction(r)
        \/ LoadConfig(r)
        \/ QueryReturn(r)
        \/ DependencyFailure(r)
        \/ Respond(r)

Next ==
    \/ CreateTransaction
    \/ PostRules
    \/ Tick
    \/ Evaluate

Spec == Init /\ [][Next]_vars

----------------------------------------------------------------------------
(* Specification SpecVelocity: one user limited to five transactions per hour *)

VelocityConfig == UserRuleConfig(1, 1, None, Some(5), None, Some(<< >>))

InitVelocity ==
    /\ txs = {Transaction(1, 2, 1, None, 0)}
    /\ configs = {VelocityConfig}
    /\ now = 0
    /\ rules = create_default_engine
    /\ ev = [r \in Requests |-> IdleFrame]

CreateVelocityTransaction ==
    /\ Cardinality({t \in txs : t.user_id = 1}) < MaxVelTx
    /\ create_transaction(1, 1, None)

NextVelocity ==
    \/ CreateVelocityTransaction
    \/ Tick
    \/ Evaluate

SpecVelocity == InitVelocity /\ [][NextVelocity]_vars

----------------------------------------------------------------------------
(* Specification SpecCountry: country strings against blocked lists *)

CountryInputs ==
    {None, Some(Str0), Some(StrSp), Some(StrIR), Some(StrIr), Some(StrPadIR),
     Some(StrPadIr), Some(StrUS)}

BlockedInputs ==
    {None, Some(<<StrIr>>), Some(<<StrIR, StrKP>>), Some(<<StrPadIr>>),
     Some(<<Str0>>), Some(<<StrSp>>), Some(<<Str0, StrUS>>), Some(<<StrSp, StrKP>>)}

CreateCountryTransaction ==
    \E c \in CountryInputs : txs = {} /\ create_transaction(1, 1, c)

PostBlocked ==
    \E b \in BlockedInputs, monthly \in {None, Some(1)} :
        create_or_update_user_rules(1, Payload(None, None, monthly, b))

DeleteTransaction ==
    \E t \in txs : delete_transaction(t.user_id, t.id)

NextCountry ==
    \/ CreateCountryTransaction
    \/ DeleteTransaction
    \/ PostBlocked
    \/ Evaluate

SpecCountry == Init /\ [][NextCountry]_vars

----------------------------------------------------------------------------
(* Specification SpecEngine: engines assembled rule by rule *)

TryWeights == {-1, 1, 31, 39, 101}

InitEngine ==
    /\ txs = {Transaction(1, 1, 2, Some(StrPadIR), 0), Transaction(2, 1, 1, None, 0)}
    /\ configs = {UserRuleConfig(1, 1, Some(1), Some(1), Some(2), Some(<<StrIr>>))}
    /\ now = 0
    /\ rules = << >>
    /\ ev = [r \in Requests |-> IdleFrame]

RegisterRule ==
    \E cls \in RuleClasses, w \in TryWeights :
        Len(rules) < MaxRules /\ register_rule(cls, w)

NextEngine ==
    \/ RegisterRule
    \/ Evaluate

SpecEngine == InitEngine /\ [][NextEngine]_vars

----------------------------------------------------------------------------
(* Specification SpecCapitalOne: the two Capital One routes, which store a *)
(* local row and evaluate it with their own default engine                 *)

PurchaseCountries == {StrUS, StrIR}

\* The transactions the Capital One API may return: amount 0 stands for a
\* missing or non-positive amount
RawItems ==
    {[amount |-> a, country |-> c] : a \in {0} \cup Amounts, c \in {None, Some(Str0)}}

RawLists == {<< >>} \cup {<<x>> : x \in RawItems} \cup {<<x, y>> : x, y \in RawItems}

\* The rows a list of items will add to the table
Positive(raw) == Cardinality({k \in 1..Len(raw) : raw[k].amount > 0})

InitCapitalOne ==
    /\ txs = {}
    /\ configs = {UserRuleConfig(1, 1, Some(1), Some(1), Some(2), Some(<<StrIr>>))}
    /\ now = 0
    /\ rules = create_default_engine
    /\ ev = [r \in Requests |-> IdleFrame]

EvaluatePurchase ==
    \E r \in Requests, u \in Users, a \in Amounts, c \in PurchaseCountries :
        Cardinality(txs) < MaxTx /\ evaluate_purchase(r, u, a, c)

GetAccountTransactions ==
    \E r \in Requests, u \in Users : get_account_transactions_with_evaluation(r, u)

CapitalOneAnswers ==
    \E r \in Requests :
        \/ \E raw \in RawLists :
              Cardinality(txs) + Positive(raw) <= MaxTx /\ ClientReturn(r, raw)
        \/ ClientFailure(r)

EvaluateLocal ==
    \E r \in Requests :
        \/ Flush(r)
        \/ LoadTransaction(r)
        \/ LoadConfig(r)
        \/ QueryReturn(r)
        \/ DependencyFailure(r)
        \/ Respond(r)

NextCapitalOne ==
    \/ EvaluatePurchase
    \/ GetAccountTransactions
    \/ CapitalOneAnswers
    \/ EvaluateLocal
    \/ Tick

SpecCapitalOne == InitCapitalOne /\ [][NextCapitalOne]_vars

----------------------------------------------------------------------------
(* Specification SpecConcurrent: two POST /evaluate requests in flight on  *)
(* the one engine of the route, over a store nobody writes                 *)

Requests2 == {"r1", "r2"}

InitConcurrent ==
    /\ txs = {Transaction(1, 1, 2, Some(StrPadIR), 0), Transaction(2, 1, 1, None, 0),
              Transaction(3, 2, 2, None, 0)}
    /\ configs = {UserRuleConfig(1, 1, Some(1), Some(1), Some(2), Some(<<StrIr>>))}
    /\ now \in {0, MaxTime}
    /\ rules = create_default_engine
    /\ ev = [r \in Requests2 |-> IdleFrame]

EvaluateConcurrent ==
    \E r \in Requests2 :
        \/ \E id \in RequestIds : Request(r, id)
        \/ LoadTransaction(r)
        \/ LoadConfig(r)
        \/ QueryReturn(r)
        \/ DependencyFailure(r)
        \/ Respond(r)

NextConcurrent == EvaluateConcurrent

SpecConcurrent == InitConcurrent /\ [][NextConcurrent]_vars

----------------------------------------------------------------------------
(* Specification SpecScenario: the configuration {max amount 1000, max per *)
(* hour 5, monthly limit 5000, blocked IR and KP} of user 1                *)

ScenarioConfig ==
    UserRuleConfig(1, 1, Some(1000), Some(5), Some(5000), Some(<<StrIR, StrKP>>))

ScenarioAmounts == {1500, 4000}

InitScenario ==
    /\ txs = {}
    /\ configs = {ScenarioConfig}
    /\ now = 0
    /\ rules = create_default_engine
    /\ ev = [r \in Requests |-> IdleFrame]

CreateScenarioTransaction ==
    \E u \in Users, a \in ScenarioAmounts :
        Cardinality(txs) < MaxTx /\ create_transaction(u, a, Some(StrUS))

NextScenario ==
    \/ CreateScenarioTransaction
    \/ Tick
    \/ Evaluate

SpecScenario == InitScenario /\ [][NextScenario]_vars

----------------------------------------------------------------------------
(* Specification SpecWindows: one user whose hourly and monthly limits are *)
(* 0, 1 or unset, and whose transactions come and go as time passes        *)

WindowPayloads ==
    {Payload(None, per_hour, monthly, None) :
        per_hour \in {None, Some(0)}, monthly \in {None, Some(0), Some(1)}}

PostWindows ==
    \E p \in WindowPayloads : create_or_update_user_rules(1, p)

\* Ids grow without bound as rows are deleted and created: they stop at MaxTx
CreateWindowsTransaction ==
    \E a \in Amounts : NextId(txs) <= MaxTx /\ create_transaction(1, a, None)

NextWindows ==
    \/ PostWindows
    \/ CreateWindowsTransaction
    \/ DeleteTransaction
    \/ Tick
    \/ Evaluate

SpecWindows == Init /\ [][NextWindows]_vars

----------------------------------------------------------------------------
(* Specification SpecLimits: one user whose four limits are set or unset   *)
(* independently of each other                                             *)

LimitPayloads ==
    {Payload(max_amount, per_hour, monthly, blocked) :
        max_amount \in {None, Some(1)},
        per_hour \in {None, Some(0)},
        monthly \in {None, Some(1)},
        blocked \in {None, Some(<<StrIR>>)}}

PostLimits ==
    \E p \in LimitPayloads : create_or_update_user_rules(1, p)

CreateLimitsTransaction ==
    \E a \in Amounts, c \in {None, Some(StrIR)} :
        Cardinality(txs) < MaxTx /\ create_transaction(1, a, c)

NextLimits ==
    \/ PostLimits
    \/ CreateLimitsTransaction
    \/ Evaluate

SpecLimits == Init /\ [][NextLimits]_vars

----------------------------------------------------------------------------
(* Specification SpecSnapshot: one stored transaction of user 1, limited   *)
(* to 1 transaction per hour and 1 per month, and one more transaction     *)
(* inserted by another request at any moment                                *)

SnapshotStore == {Transaction(1, 1, 1, None, 0)}

InitSnapshot ==
    /\ txs = SnapshotStore
    /\ configs = {UserRuleConfig(1, 1, None, Some(1), Some(1), Some(<< >>))}
    /\ now = 0
    /\ rules = create_default_engine
    /\ ev = [r \in Requests |-> IdleFrame]

CreateSnapshotTransaction ==
    \E a \in Amounts : txs = SnapshotStore /\ create_transaction(1, a, None)

NextSnapshot ==
    \/ CreateSnapshotTransaction
    \/ Tick
    \/ Evaluate

SpecSnapshot == InitSnapshot /\ [][NextSnapshot]_vars

----------------------------------------------------------------------------
(* Specification SpecTenants: user 1 holds two transactions and a          *)
(* configuration whose hourly and monthly limits they just meet, while     *)
(* user 2 stores transactions and posts configurations at any moment       *)

TenantStore ==
    {Transaction(1, 1, 1, Some(StrPadIR), 0), Transaction(2, 1, 1, None, 0)}

TenantConfigs == {UserRuleConfig(1, 1, Some(1), Some(2), Some(2), Some(<<StrUS>>))}

OtherPayloads ==
    {Payload(None, Some(0), Some(0), Some(<<StrIr>>)),
     Payload(Some(1), None, None, None)}

InitTenants ==
    /\ txs = TenantStore
    /\ configs = TenantConfigs
    /\ now = 0
    /\ rules = create_default_engine
    /\ ev = [r \in Requests |-> IdleFrame]

CreateOtherTransaction ==
    \E a \in Amounts, c \in TxCountries :
        Cardinality(txs \ TenantStore) < MaxOther /\ create_transaction(2, a, c)

PostOtherRules ==
    \E p \in OtherPayloads : create_or_update_user_rules(2, p)

NextTenants ==
    \/ CreateOtherTransaction
    \/ PostOtherRules
    \/ Evaluate

SpecTenants == InitTenants /\ [][NextTenants]_vars

----------------------------------------------------------------------------
(* Specification SpecRules: two requests in flight, each a POST or a PATCH *)
(* of the rules of user 1 or an evaluation of the user's transaction       *)

PostPayloads == {PayloadAll, Payload(None, None, None, None)}

PatchPayloads ==
    {PatchPayload({}, None, None, None, None),
     PatchPayload({"max_transactions_per_hour", "blocked_countries"},
                  None, Some(0), None, None),
     PatchPayload({"monthly_spending_limit", "blocked_countries"},
                  None, None, Some(1), Some(<<StrIR>>))}

InitRules ==
    /\ txs = {Transaction(1, 1, 2, Some(StrPadIR), 0)}
    /\ configs = {}
    /\ now = 0
    /\ rules = create_default_engine
    /\ ev = [r \in Requests2 |-> IdleFrame]

ConfigureRules ==
    \E r \in Requests2 :
        \/ \E p \in PostPayloads : create_or_update_user_rules_request(r, 1, p)
        \/ \E p \in PatchPayloads : update_user_rules(r, 1, p)
        \/ SelectExisting(r)
        \/ FlushConfig(r)
        \/ CommitConfig(r)
        \/ ConfigFailure(r)

NextRules ==
    \/ ConfigureRules
    \/ EvaluateConcurrent

SpecRules == InitRules /\ [][NextRules]_vars

----------------------------------------------------------------------------
(* Claims *)

\* The frames that returned an EvaluationResult
Returned(r) == ev[r].pc = "done" /\ ev[r].result # None

\* The owner of the transaction a frame loaded
Owner(r) == Val(ev[r].transaction).user_id

\* C1: when the configuration select of an evaluation finds no row for the
\* owner of the stored transaction, the evaluation returns at once a result of
\* score 0, decision ALLOW and four verdicts, none triggered, whatever the
\* amount, the country and the owner's other rows.
C1_NoConfigAllow ==
    [][\A r \in Requests :
          (/\ ev[r].pc = "config"
           /\ ev'[r] # ev[r]
           /\ ev'[r].raised = ""
           /\ ~\E c \in configs : c.user_id = Owner(r))
          => /\ ev'[r].pc = "done"
             /\ ev'[r].result # None
             /\ Val(ev'[r].result).risk_score = 0
             /\ Val(ev'[r].result).decision = "ALLOW"
             /\ Len(Val(ev'[r].result).rule_results) = 4
             /\ \A k \in 1..4 :
                   /\ ~Val(ev'[r].result).rule_results[k].triggered
                   /\ Val(ev'[r].result).rule_results[k].risk_contribution = 0]_vars

\* C1 witness: score 0 for an amount-2 transaction from " IR " whose owner has
\* another row but no configuration, while another user has one
C1_Witness ==
    \E r \in Requests :
        /\ Returned(r)
        /\ Val(ev[r].result).risk_score = 0
        /\ Val(ev[r].transaction).amount = 2
        /\ Val(ev[r].transaction).country = Some(StrPadIR)
        /\ configs # {}
        /\ ~\E c \in configs : c.user_id = Owner(r)
        /\ Cardinality({t \in txs : t.user_id = Owner(r)}) = 2

\* C2: the risk score of every result is min(100, sum of its verdicts'
\* contributions), lies in 0..100, and a sum above 100 is reported as exactly
\* 100 with decision BLOCK.
C2_ScoreClamped ==
    \A r \in Requests :
        Returned(r) =>
            LET res == Val(ev[r].result)
                raw == SumContributions(res.rule_results)
            IN
            /\ res.risk_score = (IF raw > 100 THEN 100 ELSE raw)
            /\ res.risk_score \in 0..100
            /\ raw > 100 => (res.risk_score = 100 /\ res.decision = "BLOCK")

\* C2 witness: all four default rules triggered, raw sum 130, reported 100
C2_Witness ==
    \E r \in Requests :
        /\ Returned(r)
        /\ SumContributions(Val(ev[r].result).rule_results) = 130
        /\ Val(ev[r].result).risk_score = 100
        /\ Val(ev[r].result).decision = "BLOCK"

\* C3: the decision is ALLOW exactly for scores below 40, REVIEW exactly for
\* scores 40..70 and BLOCK exactly for scores above 70, for every score in
\* 0..100 (39 ALLOW, 40 and 70 REVIEW, 71 BLOCK), and every result's decision
\* stands in that relation to the result's own score.
C3_DecisionOfScore ==
    /\ \A s \in 0..100 :
          /\ decision_from_score(s) = "ALLOW" <=> s < 40
          /\ decision_from_score(s) = "REVIEW" <=> (40 <= s /\ s <= 70)
          /\ decision_from_score(s) = "BLOCK" <=> s > 70
    /\ decision_from_score(39) = "ALLOW"
    /\ decision_from_score(40) = "REVIEW"
    /\ decision_from_score(70) = "REVIEW"
    /\ decision_from_score(71) = "BLOCK"
    /\ \A r \in Requests :
          Returned(r) =>
              LET res == Val(ev[r].result) IN
              /\ res.decision = "ALLOW" <=> res.risk_score < 40
              /\ res.decision = "REVIEW" <=> (40 <= res.risk_score /\ res.risk_score <= 70)
              /\ res.decision = "BLOCK" <=> res.risk_score > 70

\* C3 witness: a result of score 71, one above the REVIEW range, decided BLOCK
C3_Witness ==
    \E r \in Requests :
        /\ Returned(r)
        /\ Val(ev[r].result).risk_score = 71
        /\ Val(ev[r].result).decision = "BLOCK"

\* C4: with a maximum amount configured, the MaxAmountRule verdict is
\* triggered exactly when the transaction's amount is strictly greater than
\* the limit.
C4_MaxAmountStrict ==
    \A r \in Requests :
        (/\ ev[r].rule_results # << >>
         /\ Val(ev[r].user_rules).max_transaction_amount # None)
        => /\ ev[r].rule_results[1].rule_name = "MaxAmountRule"
           /\ ev[r].rule_results[1].triggered
                <=> Val(ev[r].transaction).amount
                      > Val(Val(ev[r].user_rules).max_transaction_amount)

\* C4 witness: an amount equal to the limit, not triggered
C4_Witness ==
    \E r \in Requests :
        /\ Returned(r)
        /\ Val(ev[r].user_rules).max_transaction_amount
             = Some(Val(ev[r].transaction).amount)
        /\ ~Val(ev[r].result).rule_results[1].triggered
        /\ Val(ev[r].result).rule_results[1].rule_name = "MaxAmountRule"

----------------------------------------------------------------------------
\* The step in which the awaited query of a rule of class cls returns to
\* request r and the rule's verdict is appended
RuleReturns(r, cls) ==
    /\ ev[r].pc = "query"
    /\ rules[ev[r].i].cls = cls
    /\ ev'[r].raised = ""
    /\ Len(ev'[r].rule_results) > Len(ev[r].rule_results)

\* The verdict appended by that step
Appended(r) == ev'[r].rule_results[ev[r].i]

\* The owner's rows other than the evaluated one, created within the window
PriorInHour(r) ==
    Cardinality({t \in txs : /\ t.user_id = Owner(r)
                             /\ t.id # ev[r].transaction_id
                             /\ t.created_at >= ev[r].since})

\* 1 when the evaluated row is itself stored within the window, else 0
SelfInHour(r) ==
    IF \E t \in txs : /\ t.id = ev[r].transaction_id
                      /\ t.user_id = Owner(r)
                      /\ t.created_at >= ev[r].since
    THEN 1 ELSE 0

LimitIsFive(r) == Val(ev[r].user_rules).max_transactions_per_hour = Some(5)

SameMonthSum(r) ==
    SumAmounts({t \in txs :
                  /\ t.user_id = Owner(r)
                  /\ start_of_month(t.created_at)
                       = start_of_month(Val(ev[r].transaction).created_at)})

\* C6: the total MonthlyLimitRule compares with the limit holds no amount of a
\* row created outside the evaluated row's calendar month, neither before its
\* first hour nor in a following month: it never exceeds the sum of the
\* owner's rows of that month.
C6_CalendarMonthWindow ==
    [][\A r \in Requests :
          RuleReturns(r, "MonthlyLimitRule")
          => Appended(r).message.nums[1] <= SameMonthSum(r)]_vars

\* upper(strip(.)) of an optional string, None read as ""
Norm(o) == upper(strip(IF o = None THEN Str0 ELSE Val(o)))

\* C7: the CountryBlockRule verdict is triggered exactly when the transaction's
\* country, trimmed and upper-cased, is non-empty and equals some blocked entry
\* trimmed and upper-cased; an absent, empty or blank country never triggers.
C7_CountryBlockNormalized ==
    \A r \in Requests :
        Returned(r) =>
            LET v == Val(ev[r].result).rule_results[4]
                blocked == Val(ev[r].user_rules).blocked_countries
                country == Norm(Val(ev[r].transaction).country)
            IN
            /\ v.rule_name = "CountryBlockRule"
            /\ v.triggered <=>
                  /\ country # Str0
                  /\ \E k \in 1..Len(blocked) : Norm(Some(blocked[k])) = country
            /\ Val(ev[r].transaction).country \in {None, Some(Str0), Some(StrSp)}
                  => ~v.triggered

\* C7 witness: blocked list ["ir"], country " IR ", triggered
C7_Witness ==
    \E r \in Requests :
        /\ Returned(r)
        /\ Val(ev[r].user_rules).blocked_countries = <<StrIr>>
        /\ Val(ev[r].transaction).country = Some(StrPadIR)
        /\ Val(ev[r].result).rule_results[4].triggered

\* C8: when the select by id finds no row, the evaluation ends at once with
\* ValueError and no result: the only statement executed is that select, no
\* view is built, no verdict exists, and the route answers 404.
C8_NotFound ==
    [][\A r \in Requests :
          (/\ ev[r].pc = "load"
           /\ ev'[r] # ev[r]
           /\ ev'[r].raised # "DependencyFailure"
           /\ ~\E t \in txs : t.id = ev[r].transaction_id)
          => /\ ev'[r].pc = "done"
             /\ ev'[r].raised = "ValueError"
             /\ ev'[r].result = None
             /\ ev'[r].status = 404
             /\ ev'[r].executed = <<"select_transaction">>
             /\ ev'[r].user_rules = None
             /\ ev'[r].rule_results = << >>]_vars

\* C8 witness: a request answered 404 for an id that is not stored while other
\* rows are
C8_Witness ==
    \E r \in Requests :
        /\ ev[r].pc = "done"
        /\ ev[r].raised = "ValueError"
        /\ ev[r].status = 404
        /\ txs # {}
        /\ ~\E t \in txs : t.id = ev[r].transaction_id

\* C9: a returned result holds exactly one verdict per registered rule, in
\* registration order: the k-th verdict carries the k-th rule's name and
\* contributes 0 or that rule's weight.
C9_OneVerdictPerRule ==
    [][\A r \in Requests :
          (ev[r].pc # "done" /\ ev'[r].pc = "done" /\ ev'[r].result # None)
          => LET res == Val(ev'[r].result) IN
             /\ Len(res.rule_results) = Len(rules')
             /\ \A k \in 1..Len(rules') :
                   /\ res.rule_results[k].rule_name = rules'[k].name
                   /\ res.rule_results[k].risk_contribution \in {0, rules'[k].weight}]_vars

\* C9 witness: a result of three verdicts for an engine registered in the
\* order CountryBlockRule, MaxAmountRule, VelocityRule
C9_Witness ==
    \E r \in Requests :
        /\ Returned(r)
        /\ Len(rules) = 3
        /\ Len(Val(ev[r].result).rule_results) = 3
        /\ [k \in 1..3 |-> rules[k].cls]
             = <<"CountryBlockRule", "MaxAmountRule", "VelocityRule">>
        /\ [k \in 1..3 |-> Val(ev[r].result).rule_results[k].rule_name]
             = <<"CountryBlockRule", "MaxAmountRule", "VelocityRule">>

\* C10: when a lookup or a rule's query fails, the evaluation ends with the
\* exception and without a result: no verdict is added for the failed rule,
\* the route does not answer 200, and a result exists only when nothing was
\* raised and every registered rule has its verdict.
C10_FailuresPropagate ==
    [][\A r \in Requests :
          /\ (ev[r].pc \in {"load", "config", "query"} /\ ev'[r].raised # "")
             => /\ ev'[r].pc = "done"
                /\ ev'[r].result = None
                /\ ev'[r].status # 200
                /\ ev'[r].rule_results = ev[r].rule_results
          /\ (ev[r].pc # "done" /\ ev'[r].result # None)
             => /\ ev'[r].raised = ""
                /\ Len(Val(ev'[r].result).rule_results) = Len(rules')]_vars

\* C10 witness: the count query of VelocityRule failed after MaxAmountRule had
\* returned its verdict, and the request ended without a result
C10_Witness ==
    \E r \in Requests :
        /\ ev[r].pc = "done"
        /\ ev[r].raised = "DependencyFailure"
        /\ Len(ev[r].rule_results) = 1
        /\ ev[r].executed = <<"select_transaction", "select_config">>
        /\ ev[r].result = None
        /\ ev[r].status = 500

----------------------------------------------------------------------------
\* The step in which evaluate_transaction returns or raises into a Capital One
\* route, and the evaluation the route then puts into its response
EngineEnds(r) ==
    /\ ev[r].route # "evaluate"
    /\ ev[r].pc \in {"load", "config", "query"}
    /\ Len(ev'[r].out) > Len(ev[r].out)

Embedded(r) == ev'[r].out[Len(ev[r].out) + 1]

\* C11: every evaluation reported to a caller rests on the complete rule set:
\* the evaluation the evaluate-purchase and account-transactions routes embed
\* for a stored row holds one verdict per registered rule, and when the engine
\* call failed it is not reported as score 0 / ALLOW; POST /evaluate answers
\* 200 only with one verdict per registered rule.
C11_CompleteRuleSet ==
    [][\A r \in Requests :
          /\ EngineEnds(r)
             => /\ Len(Embedded(r).rule_results) = Len(rules)
                /\ ev'[r].raised # ""
                     => ~(Embedded(r).risk_score = 0 /\ Embedded(r).decision = "ALLOW")
          /\ (ev[r].route = "evaluate" /\ ev[r].pc # "done" /\ ev'[r].status = 200)
             => Len(Val(ev'[r].result).rule_results) = Len(rules)]_vars

\* C12: the constructor of a rule fails exactly for the weights outside
\* 0..100, so that no rule of such a weight exists to be registered: every
\* rule in the engine's list has a weight in 0..100, and the four weights of
\* the default assembly, 30, 25, 35 and 40, are accepted.
C12_WeightValidated ==
    /\ \A cls \in RuleClasses, w \in -2..102 :
          /\ BaseRule(cls, w) = None <=> (w < 0 \/ w > 100)
          /\ BaseRule(cls, w) # None => Val(BaseRule(cls, w)).weight = w
    /\ \A k \in 1..Len(rules) : rules[k].weight \in 0..100
    /\ \A cls \in RuleClasses, w \in {30, 25, 35, 40} : BaseRule(cls, w) # None
    /\ [k \in 1..4 |-> create_default_engine[k].weight] = <<30, 25, 35, 40>>

\* C12 witness: after registrations with the weights -1, 1, 31, 39 and 101
\* were attempted, an engine of three rules weighing 1, 39 and 31
C12_Witness ==
    /\ Len(rules) = 3
    /\ [k \in 1..3 |-> rules[k].weight] = <<1, 39, 31>>

\* C13: no step of an evaluation changes the engine's rule list, and of two
\* evaluations in flight on the same engine, interleaved in any way, each ends
\* as it would have run alone against the same store: with the same result,
\* or with the same not-found error.
C13_ConcurrentEvaluations ==
    [][\A r \in Requests2 :
          /\ ev'[r] # ev[r] => rules' = rules
          /\ (/\ ev[r].pc # "done"
              /\ ev'[r].pc = "done"
              /\ ev'[r].raised # "DependencyFailure")
             => LET alone == evaluate_transaction(ev[r].transaction_id, txs,
                                                 configs, rules, now)
                IN  /\ ev'[r].result = alone.result
                    /\ ev'[r].raised = alone.raised]_vars

\* C13 witness: one evaluation has returned its result while another, of a
\* different transaction of the same user, is suspended on its count query
C13_Witness ==
    /\ Returned("r1")
    /\ Val(ev["r1"].result).risk_score = 100
    /\ ev["r2"].pc = "query"
    /\ ev["r2"].i = 2
    /\ ev["r2"].transaction_id # ev["r1"].transaction_id
    /\ Val(ev["r2"].transaction).user_id = Val(ev["r1"].transaction).user_id

\* A step of evaluate_transaction on behalf of request r
EngineStep(r) ==
    /\ ev[r].pc \in {"load", "config", "query"}
    /\ ev'[r] # ev[r]

\* C14: no step of evaluate_transaction, whether the evaluation goes on,
\* returns or fails, writes to the store: the transactions and the
\* configuration rows after the step are those before it.
C14_EvaluationReadsOnly ==
    [][\A r \in Requests :
          EngineStep(r) => (txs' = txs /\ configs' = configs)]_vars

\* C14 witness: an evaluation that ran all four of its statements and
\* returned, with two transactions and a configuration row in the store
C14_Witness ==
    \E r \in Requests :
        /\ Returned(r)
        /\ ev[r].executed
             = <<"select_transaction", "select_config", "count_since", "sum_since">>
        /\ Cardinality(txs) = 2
        /\ configs # {}

\* The orders of n rules: the permutations of 1..n
Orders(n) ==
    {p \in [1..n -> 1..n] : \A a, b \in 1..n : p[a] = p[b] => a = b}

\* C15: the result an evaluation returns is that of the sequential run on the
\* engine's rule list, and registering the same rules in any other order
\* gives, for the same transaction, store and time, the same risk score and
\* decision and the same verdicts in the permuted order.
C15_OrderIndependent ==
    [][\A r \in Requests :
          (ev[r].pc # "done" /\ ev'[r].pc = "done" /\ ev'[r].result # None)
          => LET n == Len(rules)
                 res == Val(ev'[r].result)
             IN
             /\ evaluate_transaction(ev[r].transaction_id, txs, configs, rules, now).result
                  = ev'[r].result
             /\ \A p \in Orders(n) :
                   LET other == Val(evaluate_transaction(
                                       ev[r].transaction_id, txs, configs,
                                       [k \in 1..n |-> rules[p[k]]], now).result)
                   IN
                   /\ other.risk_score = res.risk_score
                   /\ other.decision = res.decision
                   /\ Len(other.rule_results) = n
                   /\ \A k \in 1..n :
                         other.rule_results[k] = res.rule_results[p[k]]]_vars

\* C15 witness: a result whose three verdicts contribute 39, 1 and 31, in
\* that order, for rules of three different classes
C15_Witness ==
    \E r \in Requests :
        /\ Returned(r)
        /\ Len(Val(ev[r].result).rule_results) = 3
        /\ [k \in 1..3 |-> Val(ev[r].result).rule_results[k].risk_contribution]
             = <<39, 1, 31>>
        /\ Cardinality({Val(ev[r].result).rule_results[k].rule_name : k \in 1..3}) = 3

\* The evaluated row is its owner's only one of this month and hour: no other
\* row of the owner was created in the current month, which is the row's own,
\* or within the last hour
OnlyThisMonthAndHour(r) ==
    /\ start_of_month(now) = start_of_month(Val(ev[r].transaction).created_at)
    /\ \A t \in txs :
          (t.user_id = Owner(r) /\ t.id # ev[r].transaction_id)
          => (t.created_at < start_of_month(now) /\ t.created_at < now - Hour)

\* C16: scenario A.  Under the configuration {1000, 5, 5000, [IR, KP]} the
\* default engine returns, for a stored transaction of amount 1500 from US
\* that is its owner's only one this month and hour, the verdicts MaxAmountRule
\* triggered (30), VelocityRule, MonthlyLimitRule and CountryBlockRule not
\* triggered (0), score 30 and decision ALLOW.
C16_ScenarioA ==
    [][\A r \in Requests :
          (/\ ev[r].pc # "done" /\ ev'[r].pc = "done" /\ ev'[r].result # None
           /\ ev[r].user_rules
                = Some(UserRulesView(Some(1000), Some(5), Some(5000), <<StrIR, StrKP>>))
           /\ Val(ev[r].transaction).amount = 1500
           /\ Val(ev[r].transaction).country = Some(StrUS)
           /\ OnlyThisMonthAndHour(r))
          => LET res == Val(ev'[r].result) IN
             /\ Len(res.rule_results) = 4
             /\ [k \in 1..4 |-> res.rule_results[k].rule_name]
                  = <<"MaxAmountRule", "VelocityRule", "MonthlyLimitRule",
                      "CountryBlockRule">>
             /\ [k \in 1..4 |-> res.rule_results[k].triggered]
                  = <<TRUE, FALSE, FALSE, FALSE>>
             /\ [k \in 1..4 |-> res.rule_results[k].risk_contribution]
                  = <<30, 0, 0, 0>>
             /\ res.risk_score = 30
             /\ res.decision = "ALLOW"]_vars

\* C16 witness: the scenario's result, score 30 and ALLOW, for the only row of
\* user 1 while user 2 has a row too
C16_Witness ==
    \E r \in Requests :
        /\ Returned(r)
        /\ Val(ev[r].transaction).amount = 1500
        /\ Val(ev[r].transaction).country = Some(StrUS)
        /\ Owner(r) = 1
        /\ Cardinality({t \in txs : t.user_id = 1}) = 1
        /\ Cardinality(txs) = 2
        /\ Val(ev[r].result).risk_score = 30
        /\ Val(ev[r].result).decision = "ALLOW"
        /\ Val(ev[r].result).rule_results[3].message.nums = <<1500, 5000>>

C18_ZeroIsALimit ==
    [][/\ get_user_rules({UserRuleConfig(1, 1, Some(0), Some(0), Some(0), Some(<< >>))})
            = UserRulesView(Some(0), Some(0), Some(0), << >>)
       /\ \A a \in Amounts, w \in {0, 30, 100} :
             LET v == MaxAmountRule_evaluate(
                         Val(BaseRule("MaxAmountRule", w)),
                         Transaction(1, 1, a, None, 0),
                         UserRulesView(Some(0), None, None, << >>))
             IN v.triggered /\ v.risk_contribution = w
       /\ \A r \in Requests :
             /\ (ev[r].pc = "config" /\ ev'[r].user_rules # None)
                => \A c \in configs :
                      c.user_id = Owner(r)
                      => /\ Val(ev'[r].user_rules).max_transactions_per_hour
                              = c.max_transactions_per_hour
                         /\ Val(ev'[r].user_rules).monthly_spending_limit
                              = c.monthly_spending_limit
             /\ (/\ RuleReturns(r, "VelocityRule")
                 /\ Val(ev[r].user_rules).max_transactions_per_hour = Some(0))
                => (Appended(r).triggered
                      <=> \E t \in txs : /\ t.user_id = Owner(r)
                                          /\ t.created_at >= ev[r].since)
             /\ (/\ RuleReturns(r, "MonthlyLimitRule")
                 /\ Val(ev[r].user_rules).monthly_spending_limit = Some(0))
                => (Appended(r).triggered
                      <=> SumAmounts({t \in txs : /\ t.user_id = Owner(r)
                                                  /\ t.created_at >= ev[r].since}) > 0)
      ]_vars

\* C18 witness: under the limits 0 per hour and 0 per month the only row of
\* its owner, of amount 1, triggered both rules: count 1 against 0, sum 1
\* against 0
C18_Witness ==
    \E r \in Requests :
        /\ Returned(r)
        /\ Val(ev[r].user_rules).max_transactions_per_hour = Some(0)
        /\ Val(ev[r].user_rules).monthly_spending_limit = Some(0)
        /\ Val(ev[r].result).rule_results[2].triggered
        /\ Val(ev[r].result).rule_results[2].message.nums = <<1, 0>>
        /\ Val(ev[r].result).rule_results[3].triggered
        /\ Val(ev[r].result).rule_results[3].message.nums = <<1, 0>>

\* Is the limit that the rule of class cls looks at unset in the view?
Unset(cls, user_rules) ==
    CASE cls = "MaxAmountRule" -> user_rules.max_transaction_amount = None
      [] cls = "VelocityRule" -> user_rules.max_transactions_per_hour = None
      [] cls = "MonthlyLimitRule" -> user_rules.monthly_spending_limit = None
      [] cls = "CountryBlockRule" -> user_rules.blocked_countries = << >>

\* C19: the verdict of each built-in rule whose own limit is unset is not
\* triggered and contributes 0, whatever the transaction and the other three
\* limits are, and an evaluation executes the count query only with a
\* per-hour limit set and the sum query only with a monthly limit set.
C19_UnsetLimitNeverTriggers ==
    \A r \in Requests :
        ev[r].user_rules # None
        => /\ \A k \in 1..Len(ev[r].rule_results) :
                 LET v == ev[r].rule_results[k] IN
                 Unset(v.rule_name, Val(ev[r].user_rules))
                 => (~v.triggered /\ v.risk_contribution = 0)
           /\ Val(ev[r].user_rules).max_transactions_per_hour = None
                => ~InList("count_since", ev[r].executed)
           /\ Val(ev[r].user_rules).monthly_spending_limit = None
                => ~InList("sum_since", ev[r].executed)

\* C19 witness: with only the maximum amount unset, a transaction of amount 2
\* from IR got MaxAmountRule not triggered while the three other rules
\* triggered
C19_Witness ==
    \E r \in Requests :
        /\ Returned(r)
        /\ Val(ev[r].user_rules) = UserRulesView(None, Some(0), Some(1), <<StrIR>>)
        /\ Val(ev[r].transaction).amount = 2
        /\ [k \in 1..4 |-> Val(ev[r].result).rule_results[k].triggered]
             = <<FALSE, TRUE, TRUE, TRUE>>
        /\ Val(ev[r].result).rule_results[1].message.text = "No amount limit set"

\* The weights of the rules whose verdicts among the first n are triggered,
\* added up
RECURSIVE TriggeredWeight(_, _, _)
TriggeredWeight(rule_results, rls, n) ==
    IF n = 0 THEN 0
    ELSE (IF rule_results[n].triggered THEN rls[n].weight ELSE 0)
         + TriggeredWeight(rule_results, rls, n - 1)

\* C20: the k-th verdict of an evaluation contributes the weight of the k-th
\* registered rule when it is triggered and 0 when it is not, so that every
\* contribution lies in 0..100, and the risk score of a result is the sum of
\* the weights of the triggered rules, capped at 100.
C20_ContributionIsWeight ==
    \A r \in Requests :
        /\ \A k \in 1..Len(ev[r].rule_results) :
              LET v == ev[r].rule_results[k] IN
              /\ v.risk_contribution = (IF v.triggered THEN rules[k].weight ELSE 0)
              /\ v.risk_contribution \in 0..100
        /\ Returned(r)
           => LET res == Val(ev[r].result)
                  sum == TriggeredWeight(res.rule_results, rules, Len(res.rule_results))
              IN  res.risk_score = (IF sum > 100 THEN 100 ELSE sum)

\* C20 witness: MaxAmountRule (weight 1) not triggered, VelocityRule (31) and
\* MonthlyLimitRule (39) triggered: contributions 0, 31 and 39, score 70
C20_Witness ==
    \E r \in Requests :
        /\ Returned(r)
        /\ Len(Val(ev[r].result).rule_results) = 3
        /\ [k \in 1..3 |-> Val(ev[r].result).rule_results[k].triggered]
             = <<FALSE, TRUE, TRUE>>
        /\ [k \in 1..3 |-> rules[k].weight] = <<1, 31, 39>>
        /\ [k \in 1..3 |-> rules[k].cls]
             = <<"MaxAmountRule", "VelocityRule", "MonthlyLimitRule">>
        /\ Val(ev[r].result).risk_score = 70

\* Rows the table user_rule_configs can hold for user 1: every column is
\* nullable, blocked_countries included
ResolverRows ==
    {UserRuleConfig(1, 1, max_amount, per_hour, monthly, blocked) :
        max_amount \in {None, Some(0), Some(1)},
        per_hour \in {None, Some(0), Some(1)},
        monthly \in {None, Some(0), Some(2)},
        blocked \in {None, Some(<< >>), Some(<<StrIr>>), Some(<<Str0, StrPadIR>>)}}

\* The view the resolver is to return for a stored row
ViewOf(row) ==
    [max_transaction_amount |-> row.max_transaction_amount,
     max_transactions_per_hour |-> row.max_transactions_per_hour,
     monthly_spending_limit |-> row.monthly_spending_limit,
     blocked_countries |-> IF row.blocked_countries = None THEN << >>
                           ELSE Val(row.blocked_countries)]

\* The view the resolver is to return when the user has no row
ViewOfNothing ==
    [max_transaction_amount |-> None, max_transactions_per_hour |-> None,
     monthly_spending_limit |-> None, blocked_countries |-> << >>]

\* C21: for a stored row the resolver returns the three numeric limits as
\* stored, absent ones absent, and the stored blocked list, a stored null
\* list as the empty list; for no row it returns three absent limits and the
\* empty list; the blocked list of a view is always a list.
C21_ResolverCopiesRow ==
    [][\A r \in Requests :
          (ev[r].pc = "config" /\ ev'[r].user_rules # None)
          => LET rows == {c \in configs : c.user_id = Owner(r)} IN
             /\ rows = {} => Val(ev'[r].user_rules) = ViewOfNothing
             /\ \A c \in rows : Val(ev'[r].user_rules) = ViewOf(c)
             /\ Val(ev'[r].user_rules).blocked_countries \in Seq({StrIR})
             /\ get_user_rules({}) = ViewOfNothing
             /\ \A row \in ResolverRows :
                   /\ get_user_rules({row}) = ViewOf(row)
                   /\ get_user_rules({row}).blocked_countries
                        \in Seq({Str0, StrIr, StrPadIR})]_vars

\* C21 witness: an evaluation whose view came from the stored row {no maximum
\* amount, 0 per hour, no monthly limit, blocked [IR]}
C21_Witness ==
    \E r \in Requests :
        /\ Returned(r)
        /\ UserRuleConfig(1, 1, None, Some(0), None, Some(<<StrIR>>)) \in configs
        /\ Val(ev[r].user_rules) = UserRulesView(None, Some(0), None, <<StrIR>>)

\* The verdicts of the loop run over the rules in the execution order p,
\* presented in registration order: the verdict found at place k of the run
\* belongs to the rule registered at place p[k]
Presented(verdicts, p) ==
    [j \in 1..Len(verdicts) |->
        verdicts[CHOOSE k \in 1..Len(verdicts) : p[k] = j]]

\* C22: no rule sees another rule's verdict.  Against one store and at one
\* evaluation time, the result the sequential loop returns equals the result
\* aggregated from the verdicts of the same rules evaluated in any other
\* execution order and presented in registration order.
C22_RulesIndependent ==
    [][\A r \in Requests :
          (ev[r].pc # "done" /\ ev'[r].pc = "done" /\ ev'[r].result # None)
          => \A p \in Orders(Len(rules)) :
                LET run == Val(evaluate_transaction(
                                  ev[r].transaction_id, txs, configs,
                                  [k \in 1..Len(rules) |-> rules[p[k]]], now).result)
                IN  EvaluationResult(ev[r].transaction_id,
                                     Presented(run.rule_results, p))
                      = Val(ev'[r].result)]_vars

\* C22 witness: a result for the rules MonthlyLimitRule, VelocityRule and
\* CountryBlockRule, registered in that order, all three triggered
C22_Witness ==
    \E r \in Requests :
        /\ Returned(r)
        /\ Len(rules) = 3
        /\ Len(Val(ev[r].result).rule_results) = 3
        /\ [k \in 1..3 |-> Val(ev[r].result).rule_results[k].rule_name]
             = <<"MonthlyLimitRule", "VelocityRule", "CountryBlockRule">>
        /\ \A k \in 1..3 : Val(ev[r].result).rule_results[k].triggered

\* The sequential runs an evaluation of request r can be compared with: on
\* the store as it was before the insert or as it is now, at a time up to now
SnapshotRuns(r) ==
    {evaluate_transaction(ev[r].transaction_id, store, configs, rules, t) :
        store \in {SnapshotStore, txs}, t \in 0..now}

\* C23 as claimed: the result of an evaluation is that of an evaluation
\* against one state of the store: when a transaction of the owner is inserted
\* while the evaluation is suspended between its queries, the verdicts
\* returned are still, all of them, those of the sequential run on the store
\* as it was before the insert or as it is after it.
C23_Original ==
    \A r \in Requests :
        Returned(r) => \E run \in SnapshotRuns(r) : run.result = ev[r].result

\* C23 amended: each verdict of a result is that of one state of the store,
\* the state its own query read, but the verdicts of one result need not be
\* of the same state: every verdict equals the verdict of the same rule in
\* the sequential run on the store before the insert or on the store after
\* it.
C23_PerVerdictState ==
    \A r \in Requests :
        Returned(r)
        => \A k \in 1..Len(Val(ev[r].result).rule_results) :
              \E run \in SnapshotRuns(r) :
                  /\ run.result # None
                  /\ Val(run.result).rule_results[k]
                       = Val(ev[r].result).rule_results[k]

\* C23 witness: with one transaction an hour and a monthly limit of 1, a
\* result whose velocity verdict counted one row, not triggered, and whose
\* monthly verdict summed the two rows stored by the time of its query,
\* triggered
C23_Witness ==
    \E r \in Requests :
        /\ Returned(r)
        /\ ~Val(ev[r].result).rule_results[2].triggered
        /\ Val(ev[r].result).rule_results[2].message.nums = <<1, 1>>
        /\ Val(ev[r].result).rule_results[3].triggered
        /\ Val(ev[r].result).rule_results[3].message.nums[1] >= 2
        /\ Cardinality(txs) = 2

\* C24 as claimed: the verdict sequence of an evaluation contains exactly the
\* rules that were registered when the evaluation began; a register_rule call
\* made while the evaluation is suspended adds no verdict to it.
C24_Original ==
    \A r \in Requests :
        Returned(r) => Len(Val(ev[r].result).rule_results) = ev[r].began_with

\* C24 amended: the loop reads the engine's list as it runs, so the verdict
\* sequence of an evaluation contains the rules registered by the time the
\* loop ends: those registered when it began, in their order, followed by
\* every rule registered while it was suspended, each evaluated and counted
\* in the score.  The result is that of the sequential run with the engine's
\* list as it is at the return.
C24_LateRuleEvaluated ==
    [][\A r \in Requests :
          (ev[r].pc # "done" /\ ev'[r].pc = "done" /\ ev'[r].result # None)
          => LET res == Val(ev'[r].result) IN
             /\ ev[r].began_with <= Len(rules')
             /\ Len(res.rule_results) = Len(rules')
             /\ \A k \in ev[r].began_with + 1..Len(rules') :
                   /\ res.rule_results[k].rule_name = rules'[k].name
                   /\ res.rule_results[k].triggered
                        => res.rule_results[k].risk_contribution = rules'[k].weight
             /\ ev'[r].result
                  = evaluate_transaction(ev[r].transaction_id, txs, configs,
                                         rules', now).result]_vars

\* C24 witness: an evaluation entered when the engine held the VelocityRule
\* alone has returned two verdicts, the second of a rule of weight 39
\* registered while it was suspended, triggered and counted in the score
C24_Witness ==
    \E r \in Requests :
        /\ Returned(r)
        /\ ev[r].began_with = 1
        /\ rules[1].cls = "VelocityRule"
        /\ Len(Val(ev[r].result).rule_results) = 2
        /\ Val(ev[r].result).rule_results[2].triggered
        /\ Val(ev[r].result).rule_results[2].risk_contribution = 39
        /\ Val(ev[r].result).risk_score >= 39

\* The names of the rules a result reports as triggered
TriggeredRules(res) ==
    {res.rule_results[k].rule_name :
        k \in {j \in 1..Len(res.rule_results) : res.rule_results[j].triggered}}

\* C25: with the default assembly the decision is BLOCK exactly when
\* MonthlyLimitRule and CountryBlockRule are both triggered or at least three
\* rules are triggered; no single triggered rule yields BLOCK, CountryBlockRule
\* alone yields score 40 and REVIEW, and MaxAmountRule with CountryBlockRule
\* alone yields score 70 and REVIEW.
C25_DefaultDecisionTable ==
    \A r \in Requests :
        Returned(r)
        => LET res == Val(ev[r].result)
               T == TriggeredRules(res)
           IN
           /\ [k \in 1..Len(rules) |-> rules[k].weight] = <<30, 25, 35, 40>>
           /\ res.decision = "BLOCK"
                <=> \/ {"MonthlyLimitRule", "CountryBlockRule"} \subseteq T
                    \/ Cardinality(T) >= 3
           /\ Cardinality(T) = 1 => res.decision # "BLOCK"
           /\ T = {"CountryBlockRule"}
                => (res.risk_score = 40 /\ res.decision = "REVIEW")
           /\ T = {"MaxAmountRule", "CountryBlockRule"}
                => (res.risk_score = 70 /\ res.decision = "REVIEW")

\* C25 witness: MaxAmountRule and CountryBlockRule triggered and no other,
\* score 70, REVIEW
C25_Witness ==
    \E r \in Requests :
        /\ Returned(r)
        /\ TriggeredRules(Val(ev[r].result)) = {"MaxAmountRule", "CountryBlockRule"}
        /\ Val(ev[r].result).risk_score = 70
        /\ Val(ev[r].result).decision = "REVIEW"

\* The evaluation times from t to the hour after the last row's window closed
LaterTimes(t) == t..(MaxTime + Hour + 1)

\* C26: with the store unchanged, the velocity verdict can only relax as time
\* passes: when the VelocityRule verdict of an evaluation is not triggered,
\* the rule run on the same transaction, configuration and store at any later
\* time is not triggered either, and its count is never above the count of
\* the earlier run.
C26_VelocityRelaxes ==
    [][\A r \in Requests :
          RuleReturns(r, "VelocityRule")
          => \A t \in LaterTimes(ev[r].since + Hour) :
                LET later == VelocityRule_evaluate(rules[ev[r].i],
                                 Val(ev[r].transaction), Val(ev[r].user_rules),
                                 txs, velocity_since(t))
                IN  /\ ~Appended(r).triggered => ~later.triggered
                    /\ count_since(txs, Owner(r), velocity_since(t))
                         <= count_since(txs, Owner(r), ev[r].since)]_vars

\* C26 witness: a velocity verdict not triggered with the limit 5 for an
\* owner with more than five rows, which an hour earlier were all in the
\* window: the verdict relaxed
C26_Witness ==
    \E r \in Requests :
        /\ Returned(r)
        /\ ~Val(ev[r].result).rule_results[2].triggered
        /\ Val(ev[r].user_rules).max_transactions_per_hour = Some(5)
        /\ now >= 1
        /\ VelocityRule_evaluate(rules[2], Val(ev[r].transaction),
                                 Val(ev[r].user_rules), txs,
                                 velocity_since(now - 1)).triggered

\* C27: the result of evaluating a transaction of user u does not depend on
\* other users' data: whatever transactions and configurations user 2 has
\* stored, before or during the evaluation, the evaluation of a transaction
\* of user 1 returns the result of the sequential run on the store that holds
\* user 1's transactions and configuration alone, and its view is the one
\* built from user 1's own row.
C27_OtherUsersIrrelevant ==
    \A r \in Requests :
        (\E t \in TenantStore : t.id = ev[r].transaction_id)
        => /\ ev[r].user_rules # None
                => ev[r].user_rules = Some(get_user_rules(TenantConfigs))
           /\ Returned(r)
                => ev[r].result
                     = evaluate_transaction(ev[r].transaction_id, TenantStore,
                                            TenantConfigs, rules, now).result

\* C27 witness: user 1's transaction from " IR " evaluated while user 2 holds
\* two transactions and a configuration that blocks "ir" with limits of 0:
\* two rows counted against the limit 2, sum 2 against the limit 2, nothing
\* triggered
C27_Witness ==
    \E r \in Requests :
        /\ Returned(r)
        /\ ev[r].transaction_id = 1
        /\ Cardinality(txs \ TenantStore) = 2
        /\ \E c \in configs : c.user_id = 2 /\ c.blocked_countries = Some(<<StrIr>>)
        /\ Val(ev[r].result).rule_results[2].message.nums = <<2, 2>>
        /\ Val(ev[r].result).rule_results[3].message.nums = <<2, 2>>
        /\ Val(ev[r].result).risk_score = 0

\* C28: evaluation is deterministic and repeatable: two evaluations of the
\* same transaction id against the unchanged store at the same time return
\* the same score, decision and verdict sequence, and a result is that of the
\* sequential run on the store, whatever evaluation ran or is running beside
\* it.
C28_Repeatable ==
    \A r \in Requests2 :
        Returned(r)
        => /\ \A q \in Requests2 :
                 (Returned(q) /\ ev[q].transaction_id = ev[r].transaction_id)
                 => /\ Val(ev[q].result).risk_score = Val(ev[r].result).risk_score
                    /\ Val(ev[q].result).decision = Val(ev[r].result).decision
                    /\ Val(ev[q].result).rule_results = Val(ev[r].result).rule_results
           /\ Val(ev[r].result).transaction_id = ev[r].transaction_id
           /\ ev[r].result
                = evaluate_transaction(ev[r].transaction_id, txs, configs,
                                       rules, now).result

\* C28 witness: two evaluations of transaction 1 have both returned, with
\* score 100 and all four rules triggered
C28_Witness ==
    /\ Returned("r1")
    /\ Returned("r2")
    /\ ev["r1"].transaction_id = 1
    /\ ev["r2"].transaction_id = 1
    /\ Val(ev["r1"].result).risk_score = 100
    /\ Val(ev["r2"].result) = Val(ev["r1"].result)
    /\ Cardinality(TriggeredRules(Val(ev["r2"].result))) = 4

\* The rows POST /users/{user_id}/transactions can have stored for user u
\* under the id n: a positive amount, any country, created up to now
Inserted(u, n) ==
    {Transaction(n, u, a, c, t) : a \in Amounts, c \in TxCountries, t \in 0..now}

\* The stores that hold the rows of txs and one or two rows more of user u
Grown(u) ==
    {txs \cup {x} : x \in Inserted(u, NextId(txs))}
    \cup {txs \cup {x, y} : x \in Inserted(u, NextId(txs)),
                             y \in Inserted(u, NextId(txs) + 1)}

\* C29: the risk score is monotone in the owner's stored history: with the
\* configuration and the evaluation time fixed, the evaluation of the same
\* transaction on a store that holds one or two more transactions of the
\* owner, of positive amount, has a score at least that of the result
\* returned, and every VelocityRule or MonthlyLimitRule verdict triggered in
\* the result is triggered there too; MaxAmountRule and CountryBlockRule
\* verdicts are the same.
C29_MonotoneInHistory ==
    \A r \in Requests2 :
        Returned(r)
        => \A store \in Grown(Owner(r)) :
              LET res == Val(ev[r].result)
                  more == Val(evaluate_transaction(ev[r].transaction_id, store,
                                                   configs, rules, now).result)
              IN  /\ more.risk_score >= res.risk_score
                  /\ \A k \in 1..Len(rules) :
                        /\ res.rule_results[k].triggered
                             => more.rule_results[k].triggered
                        /\ rules[k].cls \in {"MaxAmountRule", "CountryBlockRule"}
                             => more.rule_results[k] = res.rule_results[k]

\* C29 witness: a result for a transaction of user 1, who is limited to one
\* transaction an hour and has no row in the last hour: VelocityRule is not
\* triggered, MonthlyLimitRule is, and with two more rows of the owner both
\* are and the score is higher
C29_Witness ==
    \E r \in Requests2 :
        /\ Returned(r)
        /\ Owner(r) = 1
        /\ ~Val(ev[r].result).rule_results[2].triggered
        /\ Val(ev[r].result).rule_results[3].triggered
        /\ \E store \in Grown(1) :
              LET more == Val(evaluate_transaction(ev[r].transaction_id, store,
                                                   configs, rules, now).result)
              IN  /\ more.rule_results[2].triggered
                  /\ more.rule_results[3].triggered
                  /\ more.risk_score > Val(ev[r].result).risk_score

\* C30: after any interleaving of POST and PATCH requests for a user's
\* rules, two requests that both found no row included, at most one
\* configuration row is stored per user, held by at most one uncommitted
\* write, and no configuration lookup, of a route or of the engine, finds
\* more than one row.
C30_OneConfigPerUser ==
    /\ \A u \in Users : Cardinality({c \in configs : c.user_id = u}) <= 1
    /\ \A u \in Users : ~scalar_one_or_none({c \in configs : c.user_id = u}).raised
    /\ \A r \in Requests2 : ev[r].raised # "MultipleResultsFound"
    /\ Cardinality({r \in Requests2 : ev[r].pending # None}) <= 1

\* C30 witness: a POST and a PATCH for user 1 both found no row; one has
\* stored its row and answered 200, the other's insert was refused
C30_Witness ==
    /\ ev["r1"].route = "post_rules"
    /\ ev["r2"].route = "patch_rules"
    /\ ev["r1"].pc = "done"
    /\ ev["r2"].pc = "done"
    /\ ev["r1"].existing = None
    /\ ev["r2"].existing = None
    /\ ev["r1"].raised = "IntegrityError"
    /\ ev["r2"].status = 200
    /\ Cardinality(configs) = 1

----------------------------------------------------------------------------
====
